---------------------------- MODULE Spec2Model ----------------------------
(***************************************************************************)
(* Model of core/tools/codegen/gen_font.py: the bitmap packer              *)
(* (process_bitmap_buffer), the glyph extractor (Glyph.from_face), the     *)
(* glyph serializer (Glyph.to_bytes) and the per-face build                *)
(* (FaceProcessor).                                                        *)
(*                                                                         *)
(* Four specifications share the module:                                   *)
(*   SpecPack  - process_bitmap_buffer and Glyph.to_bytes applied to       *)
(*               glyphs drawn from bounded sets;                           *)
(*   SpecGlyph - Glyph.from_face applied to rasterizer outputs drawn from  *)
(*               bounded sets, followed by Glyph.to_bytes;                 *)
(*   Spec      - a FaceProcessor build, one step per character;            *)
(*   SpecPar   - two builds whose steps are interleaved by their caller.   *)
(***************************************************************************)
EXTENDS Integers, Sequences, FiniteSets, TLC

VARIABLES
    pk,            \* SpecPack: the glyph handed to the packer / serializer, and the result
    ff,            \* SpecGlyph: the rasterizer output handed to from_face, and the result
    LAYOUT_NAME,   \* module global LAYOUT_NAME
    WRITE_WIDTHS,  \* module global WRITE_WIDTHS
    font,          \* the font file FaceProcessor opens
    args,          \* the arguments of FaceProcessor(...) and of write_files(gen_c)
    self,          \* the FaceProcessor object
    pc,            \* the position of the build in write_files and the writers it calls
    loc,           \* the local variables of the writer that is running
    fs,            \* the output files
    extracted,     \* the characters Glyph.from_face has returned a glyph for
    exc,           \* the exception that ended the build ("" while none)
    sched          \* SpecPar: which of two builds is running, and the state of the other

bvars ==
    <<LAYOUT_NAME, WRITE_WIDTHS, font, args, self, pc, loc, fs, extracted, exc, sched>>

(***************************************************************************)
(* Bounds of the model.                                                    *)
(***************************************************************************)
MaxW == 4
MaxH == 3
MaxArea == 9

(***************************************************************************)
(* Results of a call: a returned value or a raised exception.              *)
(***************************************************************************)
Ok(v) == [ok |-> TRUE, err |-> "", val |-> v]
Raise(e) == [ok |-> FALSE, err |-> e, val |-> <<>>]

(***************************************************************************)
(* Python's integer operators on non-negative integers.                    *)
(***************************************************************************)
RECURSIVE BitAnd(_, _)
BitAnd(a, b) ==
    IF a = 0 \/ b = 0 THEN 0
    ELSE (IF a % 2 = 1 /\ b % 2 = 1 THEN 1 ELSE 0) + 2 * BitAnd(a \div 2, b \div 2)

RECURSIVE BitOr(_, _)
BitOr(a, b) ==
    IF a = 0 THEN b
    ELSE IF b = 0 THEN a
    ELSE (IF a % 2 = 1 \/ b % 2 = 1 THEN 1 ELSE 0) + 2 * BitOr(a \div 2, b \div 2)

RECURSIVE BitXor(_, _)
BitXor(a, b) ==
    IF a = 0 THEN b
    ELSE IF b = 0 THEN a
    ELSE (IF a % 2 # b % 2 THEN 1 ELSE 0) + 2 * BitXor(a \div 2, b \div 2)

Shr(a, k) == a \div (2 ^ k)

Min2(a, b) == IF a <= b THEN a ELSE b
Max2(a, b) == IF a >= b THEN a ELSE b

\* s[a:b] for 0 <= a, clamped to the sequence as Python clamps it.
Slice(s, a, b) ==
    LET hi == Min2(b, Len(s))
    IN  IF a >= hi THEN <<>> ELSE [i \in 1..(hi - a) |-> s[a + i]]

(***************************************************************************)
(* process_bitmap_buffer                                                   *)
(***************************************************************************)
\* Mutant of PadTo: the padding loop without its "if needed" guard.
PadToAlways(res, n) == res \o [i \in 1..(n - (Len(res) % n)) |-> 0]

\* "add padding if needed": append zeros up to a multiple of n.
PadTo(res, n) ==
    IF Len(res) % n # 0
    THEN res \o [i \in 1..(n - (Len(res) % n)) |-> 0]
    ELSE res

\* One output byte of the bpp == 1 branch, from the 8 pixels of a chunk.
Pack1Byte(ch) ==
    BitOr(BitOr(BitOr(BitOr(BitOr(BitOr(BitOr(
        BitAnd(ch[1], 128),
        Shr(BitAnd(ch[2], 128), 1)),
        Shr(BitAnd(ch[3], 128), 2)),
        Shr(BitAnd(ch[4], 128), 3)),
        Shr(BitAnd(ch[5], 128), 4)),
        Shr(BitAnd(ch[6], 128), 5)),
        Shr(BitAnd(ch[7], 128), 6)),
        Shr(BitAnd(ch[8], 128), 7))

\* One output byte of the bpp == 2 branch, from the 4 pixels of a chunk.
Pack2Byte(ch) ==
    BitOr(BitOr(BitOr(
        BitAnd(ch[1], 192),
        Shr(BitAnd(ch[2], 192), 2)),
        Shr(BitAnd(ch[3], 192), 4)),
        Shr(BitAnd(ch[4], 192), 6))

Pack1(buf) ==
    LET res == PadTo(buf, 8)
    IN  [k \in 1..(Len(res) \div 8) |-> Pack1Byte(Slice(res, 8 * (k - 1), 8 * k))]

Pack2(buf) ==
    LET res == PadTo(buf, 4)
    IN  [k \in 1..(Len(res) \div 4) |-> Pack2Byte(Slice(res, 4 * (k - 1), 4 * k))]

\* Mutant of Pack4Pairs: the first pixel of a pair in the high nibble.
Pack4PairsSwapped(row) ==
    [k \in 1..(Len(row) \div 2) |->
        BitOr(BitAnd(row[2 * k - 1], 240), Shr(row[2 * k], 4))]

\* The pairs of one row: zip(row[::2], row[1::2]) gives len(row) // 2 pairs
\* (a, b) = (row[2k], row[2k+1]), each packed as (b & 0xF0) | (a >> 4).
Pack4Pairs(row) ==
    [k \in 1..(Len(row) \div 2) |->
        BitOr(BitAnd(row[2 * k], 240), Shr(row[2 * k - 1], 4))]

\* The bytes the bpp == 4 loop appends for row y; row[-1] of an empty row
\* raises IndexError.
Pack4Row(buf, width, y) ==
    LET row == Slice(buf, y * width, (y + 1) * width)
        odd == BitAnd(width, 1) # 0
    IN  IF odd /\ Len(row) = 0 THEN Raise("IndexError")
        ELSE Ok(Pack4Pairs(row)
                \o (IF odd THEN <<Shr(row[Len(row)], 4)>> ELSE <<>>))

\* The bytes of rows lo..hi-1 in order ("for y in range(0, height)"); the
\* range is halved so that the evaluation stays shallow.
RECURSIVE Pack4Rows(_, _, _, _)
Pack4Rows(buf, width, lo, hi) ==
    IF lo >= hi THEN Ok(<<>>)
    ELSE IF hi = lo + 1 THEN Pack4Row(buf, width, lo)
    ELSE LET mid == (lo + hi) \div 2
             first == Pack4Rows(buf, width, lo, mid)
         IN  IF ~first.ok THEN first
             ELSE LET rest == Pack4Rows(buf, width, mid, hi)
                  IN  IF rest.ok THEN Ok(first.val \o rest.val) ELSE rest

\* Mutant of process_bitmap_buffer: any other bpp taken as 8.
process_bitmap_buffer_lenient(buf, bpp, width, height) ==
    IF bpp = 1 THEN Ok(Pack1(buf))
    ELSE IF bpp = 2 THEN Ok(Pack2(buf))
    ELSE IF bpp = 4 THEN Pack4Rows(buf, width, 0, height)
    ELSE Ok(buf)

process_bitmap_buffer(buf, bpp, width, height) ==
    IF bpp = 1 THEN Ok(Pack1(buf))
    ELSE IF bpp = 2 THEN Ok(Pack2(buf))
    ELSE IF bpp = 4 THEN Pack4Rows(buf, width, 0, height)
    ELSE IF bpp = 8 THEN Ok(buf)
    ELSE Raise("ValueError")

(***************************************************************************)
(* Glyph.process_byte, Glyph.to_bytes                                      *)
(***************************************************************************)
\* Mutant of process_byte: the inverse_colors flag ignored.
process_byte_plain(g, b) == b

process_byte(g, b) == IF g.inverse_colors THEN BitXor(b, 255) ELSE b

\* bytes(list) raises ValueError unless every element is in range(0, 256).
Bytes(l) ==
    IF \A i \in 1..Len(l) : l[i] >= 0 /\ l[i] <= 255 THEN Ok(l)
    ELSE Raise("ValueError")

\* Mutant of to_bytes: rows written before width.
to_bytes_rows_first(g, bpp) ==
    LET infos == <<g.rows, g.width, g.advance, g.bearingX, g.bearingY>>
    IN  IF g.buf # <<>>
        THEN LET packed == process_bitmap_buffer(g.buf, bpp, g.width, g.rows)
             IN  IF packed.ok
                 THEN Bytes(infos \o [i \in 1..Len(packed.val) |->
                                         process_byte(g, packed.val[i])])
                 ELSE packed
        ELSE Bytes(infos)

to_bytes(g, bpp) ==
    LET infos == <<g.width, g.rows, g.advance, g.bearingX, g.bearingY>>
    IN  IF g.buf # <<>>
        THEN LET packed == process_bitmap_buffer(g.buf, bpp, g.width, g.rows)
             IN  IF packed.ok
                 THEN Bytes(infos \o [i \in 1..Len(packed.val) |->
                                         process_byte(g, packed.val[i])])
                 ELSE packed
        ELSE Bytes(infos)

(***************************************************************************)
(* drop_left_columns, Glyph.from_face                                      *)
(***************************************************************************)
\* Characters are Unicode code points.  MODIFY_BEARING_X, in the order of the
\* source list.
MODIFY_BEARING_X ==
    {196, 192, 194, 195, 198, 206, 207, 204, 238, 239, 236, 255, 221, 376,
     193, 253, 65, 88, 89, 106, 120, 121, 125, 41, 44, 47, 95}

\* The elements buf[i], lo <= i < hi, with i % width >= drop, in order ("for
\* i in range(len(buf))"); the range is halved so that the evaluation stays
\* shallow.
RECURSIVE DropFrom(_, _, _, _, _)
DropFrom(buf, width, drop, lo, hi) ==
    IF lo >= hi THEN <<>>
    ELSE IF hi = lo + 1
    THEN (IF lo % width >= drop THEN <<buf[lo + 1]>> ELSE <<>>)
    ELSE LET mid == (lo + hi) \div 2
         IN  DropFrom(buf, width, drop, lo, mid) \o DropFrom(buf, width, drop, mid, hi)

\* Mutant of drop_left_columns: the rightmost columns dropped instead.
drop_right_columns(buf, width, drop) ==
    [k \in 1..((Len(buf) \div width) * (width - drop)) |->
        buf[((k - 1) \div (width - drop)) * width + ((k - 1) % (width - drop)) + 1]]

drop_left_columns(buf, width, drop) == DropFrom(buf, width, drop, 0, Len(buf))

MkGlyph(c, w, h, adv, bx, by, b, grays, inv) ==
    [char |-> c, width |-> w, rows |-> h, advance |-> adv, bearingX |-> bx,
     bearingY |-> by, buf |-> b, num_grays |-> grays, inverse_colors |-> inv]

\* The range the assertions of from_face demand of advance and the bearings.
\* Mutant of InByteRange: the upper limit forgotten.
InByteRangeNoUpper(x) == x >= 0

InByteRange(x) == x >= 0 /\ x <= 255

Min3(a, b, c) == Min2(a, Min2(b, c))

\* The assertions on the rasterizer's output at the head of from_face.
RasterAsserts(bitmap, metrics) ==
    /\ metrics.width \div 64 = bitmap.width
    /\ metrics.height \div 64 = bitmap.rows
    /\ metrics.width % 64 = 0
    /\ metrics.height % 64 = 0
    /\ metrics.horiAdvance % 64 = 0
    /\ metrics.horiBearingX % 64 = 0
    /\ metrics.horiBearingY % 64 = 0
    /\ bitmap.width = bitmap.pitch
    /\ Len(bitmap.buffer) = bitmap.pitch * bitmap.rows

\* Mutant of ShaveDiff: the guard shaveX > 0 left out.
ShaveDiffUnguarded(advance, bearingX, shaveX) == Min3(advance, bearingX, shaveX)

\* "discard space on the left side": the amount taken from advance and
\* bearingX (and from remove_left) when shaveX > 0.
ShaveDiff(advance, bearingX, shaveX) ==
    IF shaveX > 0 THEN Min3(advance, bearingX, shaveX) ELSE 0

\* Mutant of FromFaceTail: advance not reduced by the dropped columns.
FromFaceTailKeepAdvance(bitmap, c, width, advance, bearingX, bearingY, remove_left, inv) ==
    IF remove_left > 0 /\ width > 0
    THEN IF bearingX # 0 THEN Raise("AssertionError")
         ELSE IF ~(width > remove_left) THEN Raise("AssertionError")
         ELSE IF ~(advance > remove_left) THEN Raise("AssertionError")
         ELSE Ok(MkGlyph(c, width - remove_left, bitmap.rows,
                         advance, bearingX, bearingY,
                         drop_left_columns(bitmap.buffer, width, remove_left),
                         bitmap.num_grays, inv))
    ELSE Ok(MkGlyph(c, width, bitmap.rows, advance, bearingX, bearingY,
                    bitmap.buffer, bitmap.num_grays, inv))

\* "discard non-space pixels on the left side" and the final Glyph(...).
FromFaceTail(bitmap, c, width, advance, bearingX, bearingY, remove_left, inv) ==
    IF remove_left > 0 /\ width > 0
    THEN IF bearingX # 0 THEN Raise("AssertionError")
         ELSE IF ~(width > remove_left) THEN Raise("AssertionError")
         ELSE IF ~(advance > remove_left) THEN Raise("AssertionError")
         ELSE Ok(MkGlyph(c, width - remove_left, bitmap.rows,
                         advance - remove_left, bearingX, bearingY,
                         drop_left_columns(bitmap.buffer, width, remove_left),
                         bitmap.num_grays, inv))
    ELSE Ok(MkGlyph(c, width, bitmap.rows, advance, bearingX, bearingY,
                    bitmap.buffer, bitmap.num_grays, inv))

\* Glyph.from_face(face, c, shaveX, inverse_colors), where glyph is face.glyph
\* as the last load_char left it.
from_face(glyph, c, shaveX, inverse_colors) ==
    LET bitmap == glyph.bitmap
        metrics == glyph.metrics
    IN  IF ~RasterAsserts(bitmap, metrics) THEN Raise("AssertionError")
        ELSE
        LET advance0 == metrics.horiAdvance \div 64
            bearingX0 == metrics.horiBearingX \div 64
            diff == ShaveDiff(advance0, bearingX0, shaveX)
            advance1 == advance0 - diff
            bearingX1 == bearingX0 - diff
            remove_left == shaveX - diff
        IN  IF bearingX1 < 0 /\ c \notin MODIFY_BEARING_X THEN Raise("ValueError")
            ELSE
            LET advance2 == IF bearingX1 < 0 THEN advance1 + (-bearingX1) ELSE advance1
                bearingX2 == IF bearingX1 < 0 THEN 0 ELSE bearingX1
                bearingY0 == metrics.horiBearingY \div 64
                bearingY1 == IF bearingY0 < 0 THEN 0 ELSE bearingY0
            IN  IF ~InByteRange(advance2) THEN Raise("AssertionError")
                ELSE IF ~InByteRange(bearingX2) THEN Raise("AssertionError")
                ELSE IF ~InByteRange(bearingY1) THEN Raise("AssertionError")
                ELSE FromFaceTail(bitmap, c, bitmap.width, advance2, bearingX2,
                                  bearingY1, remove_left, inverse_colors)

(***************************************************************************)
(* SpecPack: the packer and the serializer applied to bounded glyphs.      *)
(***************************************************************************)
\* Pixel values: 0 and two values whose bits are each other's complement
\* (0x6B, 0x94), so that every bit position is told apart.
Pixels == {0, 107, 148}

\* The bit depths handed to the packer: the four supported ones and three
\* that are not.
BppInputs == {0, 1, 2, 3, 4, 8, 16}
SupportedBpp == {1, 2, 4, 8}

\* (advance, bearingX, bearingY) of the glyphs handed to the serializer.
HeaderSamples == {<<5, 1, 7>>}

PackShapes ==
    {s \in (0..MaxW) \X (0..MaxH) : s[1] * s[2] <= MaxArea}

PackInit ==
    \E s \in PackShapes, hd \in HeaderSamples, inv \in BOOLEAN :
        \E b \in [1..(s[1] * s[2]) -> Pixels] :
            pk = [glyph |-> MkGlyph(63, s[1], s[2], hd[1], hd[2], hd[3], b, 256, inv),
                  op |-> "none", bpp |-> 0, out |-> Raise("")]

PackIdle == pk = [op |-> "idle"]
GlyphIdle == ff = [op |-> "idle"]
BuildIdle ==
    /\ LAYOUT_NAME = "" /\ WRITE_WIDTHS = FALSE /\ font = "idle" /\ args = "idle"
    /\ self = "idle" /\ pc = "idle" /\ loc = "idle" /\ fs = "idle"
    /\ extracted = {} /\ exc = "" /\ sched = "idle"

\* process_bitmap_buffer(glyph.buf, bpp, glyph.width, glyph.rows)
Pack(bpp) ==
    /\ pk.op = "none"
    /\ pk' = [pk EXCEPT !.op = "pack", !.bpp = bpp,
                        !.out = process_bitmap_buffer(pk.glyph.buf, bpp,
                                                      pk.glyph.width, pk.glyph.rows)]
    /\ UNCHANGED <<ff, bvars>>

\* glyph.to_bytes(bpp)
ToBytes(bpp) ==
    /\ pk.op = "none"
    /\ pk' = [pk EXCEPT !.op = "to_bytes", !.bpp = bpp,
                        !.out = to_bytes(pk.glyph, bpp)]
    /\ UNCHANGED <<ff, bvars>>

InitPack == PackInit /\ GlyphIdle /\ BuildIdle
NextPack ==
    \/ \E bpp \in BppInputs : Pack(bpp)
    \/ \E bpp \in BppInputs : ToBytes(bpp)

vars == <<pk, ff, bvars>>
SpecPack == InitPack /\ [][NextPack]_vars

(***************************************************************************)
(* Claims about the packer and the serializer (checked under SpecPack).    *)
(***************************************************************************)
CeilDiv(a, b) == (a + b - 1) \div b

\* The top bpp bits of an 8-bit pixel.
TopBits(x, bpp) == Shr(x, 8 - bpp)

\* The synthetic unpacker: the value read at pixel position k (linear scan,
\* from 0) for bpp 1, 2 and 8, and at (row r, column c) for bpp 4.
Unpack1(out, k) == Shr(out[k \div 8 + 1], 7 - (k % 8)) % 2
Unpack2(out, k) == Shr(out[k \div 4 + 1], 6 - 2 * (k % 4)) % 4
Unpack4(out, width, r, c) ==
    LET byte == out[r * CeilDiv(width, 2) + c \div 2 + 1]
    IN  IF c % 2 = 0 THEN byte % 16 ELSE byte \div 16

\* The length the packed form of a width x height bitmap must have.
PackedLen(bpp, width, height) ==
    IF bpp = 1 THEN CeilDiv(width * height, 8)
    ELSE IF bpp = 2 THEN CeilDiv(width * height, 4)
    ELSE IF bpp = 4 THEN height * CeilDiv(width, 2)
    ELSE width * height

\* out unpacks to the top bpp bits of px(k) at every pixel position k and to
\* pad at every padding position.
UnpacksTo(out, px(_), pad, bpp, width, height) ==
    LET n == width * height
    IN  /\ Len(out) = PackedLen(bpp, width, height)
        /\ bpp = 1 =>
              /\ \A k \in 0..(n - 1) : Unpack1(out, k) = TopBits(px(k), 1)
              /\ \A k \in n..(8 * Len(out) - 1) : Unpack1(out, k) = pad
        /\ bpp = 2 =>
              /\ \A k \in 0..(n - 1) : Unpack2(out, k) = TopBits(px(k), 2)
              /\ \A k \in n..(4 * Len(out) - 1) : Unpack2(out, k) = pad
        /\ bpp = 4 =>
              \A r \in 0..(height - 1) :
                 /\ \A c \in 0..(width - 1) :
                       Unpack4(out, width, r, c) = TopBits(px(r * width + c), 4)
                 /\ width % 2 = 1 => Unpack4(out, width, r, width) = pad
        /\ bpp = 8 => \A k \in 0..(n - 1) : out[k + 1] = px(k)

PackedSupported == pk.op = "pack" /\ pk.bpp \in SupportedBpp
SerializedSupported == pk.op = "to_bytes" /\ pk.bpp \in SupportedBpp

\* C4: unpacking process_bitmap_buffer(buf, bpp, width, height) with the
\* synthetic unpacker of each bpp gives back the top bpp bits of every pixel
\* of buf, and every padding position reads as 0.
C4_RoundTrip ==
    PackedSupported =>
        /\ pk.out.ok
        /\ LET px(k) == pk.glyph.buf[k + 1]
           IN  UnpacksTo(pk.out.val, px, 0, pk.bpp, pk.glyph.width, pk.glyph.rows)

\* A bpp = 4 pack of a bitmap of odd width and at least two rows, and a
\* bpp = 1 pack that needs a second, padded byte.
C4_Witness ==
    /\ PackedSupported /\ pk.out.ok
    /\ \/ pk.bpp = 4 /\ pk.glyph.width = 3 /\ pk.glyph.rows >= 2
          /\ pk.glyph.buf[3] = 148
       \/ pk.bpp = 1 /\ Len(pk.glyph.buf) = 9 /\ pk.glyph.buf[9] = 148

\* C5: the output of process_bitmap_buffer has length ceil(w*h/8) for bpp 1,
\* ceil(w*h/4) for bpp 2, h*ceil(w/2) for bpp 4 and w*h for bpp 8.
C5_PackedLength ==
    PackedSupported =>
        /\ pk.out.ok
        /\ Len(pk.out.val) =
              (CASE pk.bpp = 1 -> CeilDiv(pk.glyph.width * pk.glyph.rows, 8)
                 [] pk.bpp = 2 -> CeilDiv(pk.glyph.width * pk.glyph.rows, 4)
                 [] pk.bpp = 4 -> pk.glyph.rows * CeilDiv(pk.glyph.width, 2)
                 [] pk.bpp = 8 -> pk.glyph.width * pk.glyph.rows)

\* A pack of 8 pixels at bpp = 1 (no padding), of 9 pixels (a padded second
\* byte), or of two rows of odd width at bpp = 4.
C5_Witness ==
    /\ PackedSupported /\ pk.out.ok
    /\ \/ pk.bpp = 1 /\ Len(pk.glyph.buf) = 8 /\ Len(pk.out.val) = 1
       \/ pk.bpp = 1 /\ Len(pk.glyph.buf) = 9 /\ Len(pk.out.val) = 2
       \/ pk.bpp = 4 /\ pk.glyph.width = 3 /\ pk.glyph.rows = 2
          /\ Len(pk.out.val) = 4

Packed(out) == Slice(out, 5, Len(out))

InvertedBuf(buf) == [i \in 1..Len(buf) |-> BitXor(buf[i], 255)]

\* C6: Glyph.to_bytes returns the 5 header bytes width, rows, advance,
\* bearingX, bearingY in that order, followed by the packed pixels when buf is
\* non-empty (5 + packed length bytes in all; for a glyph that is not
\* inverted the tail unpacks to the pixels of buf), and nothing else when buf
\* is empty.
C6_SerializedLayout ==
    SerializedSupported =>
        LET g == pk.glyph
            out == pk.out.val
            px(k) == g.buf[k + 1]
        IN  /\ pk.out.ok
            /\ Len(out) >= 5
            /\ Slice(out, 0, 5) = <<g.width, g.rows, g.advance, g.bearingX, g.bearingY>>
            /\ g.buf = <<>> => Len(out) = 5
            /\ g.buf # <<>> =>
                  /\ Len(out) = 5 + PackedLen(pk.bpp, g.width, g.rows)
                  /\ ~g.inverse_colors =>
                        UnpacksTo(Packed(out), px, 0, pk.bpp, g.width, g.rows)

\* A serialized glyph with pixels (header and packed bytes), and one without.
C6_Witness ==
    /\ SerializedSupported /\ pk.out.ok
    /\ \/ pk.glyph.buf # <<>> /\ Len(pk.out.val) = 7 /\ pk.glyph.advance = 5
       \/ pk.glyph.buf = <<>> /\ pk.glyph.width = 2 /\ Len(pk.out.val) = 5

\* C2 as stated: for an inverted glyph with pixels, the bytes after the
\* header are process_bitmap_buffer of the buffer whose every pixel was
\* XORed with 0xFF, so that padding bits stay 0.
C2_InvertBeforePack ==
    (SerializedSupported /\ pk.glyph.inverse_colors /\ pk.glyph.buf # <<>>) =>
        /\ pk.out.ok
        /\ Packed(pk.out.val) =
              process_bitmap_buffer(InvertedBuf(pk.glyph.buf), pk.bpp,
                                    pk.glyph.width, pk.glyph.rows).val

\* C2 as amended: for an inverted glyph with pixels, the bytes after the
\* header are the packed bytes of the original buffer, each XORed with 0xFF
\* (inversion after packing): every pixel position holds the top bpp bits of
\* the inverted pixel and every padding position reads as all ones.
C2_InvertAfterPack ==
    (SerializedSupported /\ pk.glyph.inverse_colors /\ pk.glyph.buf # <<>>) =>
        LET g == pk.glyph
            px(k) == BitXor(g.buf[k + 1], 255)
            packed == process_bitmap_buffer(g.buf, pk.bpp, g.width, g.rows).val
        IN  /\ pk.out.ok
            /\ Packed(pk.out.val) = [i \in 1..Len(packed) |-> BitXor(packed[i], 255)]
            /\ UnpacksTo(Packed(pk.out.val), px, 2 ^ pk.bpp - 1, pk.bpp,
                         g.width, g.rows)

\* An inverted glyph whose packed form has padding positions: 9 pixels at
\* bpp = 1, or rows of odd width at bpp = 4.
C2_Witness ==
    /\ SerializedSupported /\ pk.out.ok
    /\ pk.glyph.inverse_colors /\ pk.glyph.buf # <<>>
    /\ \/ pk.bpp = 1 /\ Len(pk.glyph.buf) = 9
       \/ pk.bpp = 4 /\ pk.glyph.width = 3 /\ pk.glyph.rows = 2

(***************************************************************************)
(* SpecGlyph: Glyph.from_face applied to bounded rasterizer outputs, and   *)
(* Glyph.to_bytes applied to the glyph it returns.                         *)
(***************************************************************************)
MaxFW == 3
MaxFH == 2
MaxShave == 2

\* Bitmap shapes: the small ones, and two with a side of 256.
RasterShapes == ((0..MaxFW) \X (0..MaxFH)) \cup {<<256, 1>>, <<1, 256>>}

\* A buffer of n pixels that differ from their neighbours.
RasterBuf(n) == [i \in 1..n |-> (37 * (i - 1) + 11) % 256]

\* Metrics in pixels, as the rasterizer may report them.
AdvancePx == {-1, 0, 1, 2, 4, 255, 256}
BearingXPx == {-2, -1, 0, 1, 2, 255, 256}
BearingYPx == {-1, 0, 3, 255, 256}

\* face.glyph after load_char: the bitmap and the metrics in 26.6 fixed point.
MkFaceGlyph(w, h, adv, bx, by) ==
    [bitmap |-> [width |-> w, rows |-> h, pitch |-> w,
                 buffer |-> RasterBuf(w * h), num_grays |-> 256],
     metrics |-> [width |-> 64 * w, height |-> 64 * h, horiAdvance |-> 64 * adv,
                  horiBearingX |-> 64 * bx, horiBearingY |-> 64 * by]]

RegularGlyphs ==
    {MkFaceGlyph(s[1], s[2], adv, bx, by) :
        s \in RasterShapes, adv \in AdvancePx, bx \in BearingXPx, by \in BearingYPx}

\* Rasterizer outputs the assertions at the head of from_face reject: a padded
\* pitch, metrics that disagree with the bitmap, sub-pixel remainders.
IrregularGlyphs ==
    LET g == MkFaceGlyph(2, 2, 4, 1, 3)
    IN  {[g EXCEPT !.bitmap.pitch = 4, !.bitmap.buffer = RasterBuf(8)],
         [g EXCEPT !.metrics.width = 192],
         [g EXCEPT !.metrics.height = 129],
         [g EXCEPT !.metrics.horiAdvance = 257],
         [g EXCEPT !.metrics.horiBearingX = -1],
         [g EXCEPT !.metrics.horiBearingY = 65],
         [g EXCEPT !.bitmap.buffer = RasterBuf(3)]}

\* "A" is in MODIFY_BEARING_X, "B" is not.
GlyphChars == {65, 66}

GlyphInit ==
    \E g \in RegularGlyphs \cup IrregularGlyphs, c \in GlyphChars,
       shaveX \in 0..MaxShave :
        ff = [glyph |-> g, c |-> c, shaveX |-> shaveX, op |-> "none",
              res |-> Raise(""), bpp |-> 0, out |-> Raise("")]

\* Glyph.from_face(face, c, shaveX, inverse_colors)
FromFace(inv) ==
    /\ ff.op = "none"
    /\ ff' = [ff EXCEPT !.op = "from_face",
                        !.res = from_face(ff.glyph, ff.c, ff.shaveX, inv)]
    /\ UNCHANGED <<pk, bvars>>

\* glyph.to_bytes(bpp) on the glyph from_face returned
GlyphToBytes(bpp) ==
    /\ ff.op = "from_face"
    /\ ff.res.ok
    /\ ff' = [ff EXCEPT !.op = "to_bytes", !.bpp = bpp,
                        !.out = to_bytes(ff.res.val, bpp)]
    /\ UNCHANGED <<pk, bvars>>

InitGlyph == GlyphInit /\ PackIdle /\ BuildIdle
NextGlyph ==
    \/ \E inv \in BOOLEAN : FromFace(inv)
    \/ \E bpp \in BppInputs : GlyphToBytes(bpp)

SpecGlyph == InitGlyph /\ [][NextGlyph]_vars

(***************************************************************************)
(* Claims about Glyph.from_face (checked under SpecGlyph).                 *)
(***************************************************************************)
Extracted == ff.op # "none"

\* The metrics the rasterizer reported, in pixels.
RasterAdvance == ff.glyph.metrics.horiAdvance \div 64
RasterBearingX == ff.glyph.metrics.horiBearingX \div 64

\* C1: for a character outside MODIFY_BEARING_X whose reported bearingX is
\* negative, from_face fails for every shaveX >= 0; it never returns a glyph.
C1_NegativeBearingRaises ==
    (Extracted /\ ff.c \notin MODIFY_BEARING_X /\ RasterBearingX < 0) => ~ff.res.ok

\* C3: every glyph from_face returns has advance, bearingX and bearingY in
\* 0..255, also after the left-column shave has reduced advance.
C3_MetricsInRange ==
    (Extracted /\ ff.res.ok) =>
        /\ ff.res.val.advance >= 0 /\ ff.res.val.advance <= 255
        /\ ff.res.val.bearingX >= 0 /\ ff.res.val.bearingX <= 255
        /\ ff.res.val.bearingY >= 0 /\ ff.res.val.bearingY <= 255

\* A returned glyph whose columns were shaved: width and advance reduced.
C3_Witness ==
    /\ Extracted /\ ff.res.ok
    /\ ff.res.val.width > 0
    /\ ff.res.val.width < ff.glyph.bitmap.width
    /\ ff.res.val.advance < RasterAdvance
    /\ ff.res.val.advance = 255 - ff.shaveX

\* C7: every glyph from_face returns has all five header fields in 0..255,
\* so serializing it with a supported bpp succeeds and the header bytes are
\* the glyph's fields.
C7_HeaderFieldsAreBytes ==
    /\ (Extracted /\ ff.res.ok) =>
          /\ ff.res.val.width >= 0 /\ ff.res.val.width <= 255
          /\ ff.res.val.rows >= 0 /\ ff.res.val.rows <= 255
          /\ ff.res.val.advance >= 0 /\ ff.res.val.advance <= 255
          /\ ff.res.val.bearingX >= 0 /\ ff.res.val.bearingX <= 255
          /\ ff.res.val.bearingY >= 0 /\ ff.res.val.bearingY <= 255
    /\ (ff.op = "to_bytes" /\ ff.bpp \in SupportedBpp) =>
          /\ ff.out.ok
          /\ Slice(ff.out.val, 0, 5) =
                <<ff.res.val.width, ff.res.val.rows, ff.res.val.advance,
                  ff.res.val.bearingX, ff.res.val.bearingY>>

(***************************************************************************)
(* Spec: one FaceProcessor build, FaceProcessor(...).write_files(gen_c).   *)
(***************************************************************************)
MIN_GLYPH == 32
MAX_GLYPH == 126

\* None, for font_idx and font_idx_upper.
None == -1

\* str.islower and str.upper on the characters of the model: ASCII, and the
\* characters of all_languages.
islower(c) == c \in 97..122 \/ c \in {223, 225, 228}
upper(c) == IF c \in 97..122 \/ c \in {225, 228} THEN c - 32 ELSE c

\* foreign_chars.all_languages, in the order of the dict: "cs" holds a-acute
\* and A-acute, "de" holds sharp s and a-umlaut.
LangOrder == <<"cs", "de">>
all_languages == [l \in {"cs", "de"} |-> IF l = "cs" THEN <<225, 193>> ELSE <<223, 228>>]

Layouts == {"bolt", "caesar"}

\* The font file: every character has the metrics of BaseGlyph, but for one
\* character (font.c) that has the metrics of a profile: a deep descender, a
\* tall ascender, or a negative left bearing.
SpecialChars == {63, 66, 106, 225}
Fonts ==
    {[c |-> 0, p |-> "base"]}
    \cup {[c |-> ch, p |-> pr] : ch \in SpecialChars, pr \in {"deep", "tall", "neg"}}

BaseGlyph(c) ==
    IF c = 32 THEN MkFaceGlyph(0, 0, 3, 0, 0)
    ELSE MkFaceGlyph(2 + (c % 2), 1 + (c % 3), 4 + (c % 2), c % 2,
                     1 + ((c \div 2) % 3))

\* face.glyph after face.load_char(c)
FontGlyph(f, c) ==
    IF f.c # c THEN BaseGlyph(c)
    ELSE IF f.p = "deep" THEN MkFaceGlyph(2, 6, 4, 1, 1)
    ELSE IF f.p = "tall" THEN MkFaceGlyph(2, 7, 4, 1, 7)
    ELSE MkFaceGlyph(3, 2, 4, -1, 2)

\* The arguments of FaceProcessor(...): those of the calls of gen_layout_bolt
\* and gen_layout_caesar, and defective ones.
MkArgs(normal, up, idx, idx_upper, bpp, shaveX) ==
    [gen_normal |-> normal, gen_upper |-> up, font_idx |-> idx,
     font_idx_upper |-> idx_upper, bpp |-> bpp, shaveX |-> shaveX]

Configs ==
    {MkArgs(TRUE, FALSE, 1, None, 4, 0),
     MkArgs(FALSE, TRUE, None, 7, 4, 0),
     MkArgs(TRUE, TRUE, 1, 6, 1, 1),
     MkArgs(FALSE, FALSE, 1, 6, 4, 0),
     MkArgs(TRUE, FALSE, None, None, 4, 0),
     MkArgs(TRUE, TRUE, 1, None, 4, 0),
     MkArgs(TRUE, FALSE, 1, None, 3, 0)}

\* The layout function that makes the call: the bpp = 1 builds are those of
\* gen_layout_caesar.
LayoutOf(a) == IF a.bpp = 1 THEN "caesar" ELSE "bolt"

\* Output files: _c_file_name, _h_file_name, the JSON file of a variant and a
\* language, the widths file, _rs_file_name (which reads LAYOUT_NAME).
CFile == <<"c", "", "">>
HFile == <<"h", "", "">>
WidthsFile == <<"widths", "", "">>
JsonFile(up, lang) == <<"json", IF up THEN "_upper" ELSE "", lang>>
RsFile(layout) == <<"rs", layout, "">>
FileNames ==
    {CFile, HFile, WidthsFile}
    \cup {JsonFile(up, l) : up \in BOOLEAN, l \in {"cs", "de"}}
    \cup {RsFile(l) : l \in Layouts}

NoFile == [state |-> "absent", data |-> <<>>]
NoFace == [open |-> FALSE, loaded |-> 0]
NoLocals == [glyphs |-> <<>>, fontdata |-> <<>>, widths |-> <<>>]

P(at, i, lang, up) == [at |-> at, i |-> i, lang |-> lang, upper |-> up]

\* A build that runs alone.
OneBuild == [cur |-> 0]

Init ==
    /\ PackIdle /\ GlyphIdle
    /\ WRITE_WIDTHS \in BOOLEAN
    /\ font \in Fonts
    /\ \E a \in Configs, gen_c \in BOOLEAN :
          /\ LAYOUT_NAME = LayoutOf(a)
          /\ args = [gen_normal |-> a.gen_normal, gen_upper |-> a.gen_upper,
                  font_idx |-> a.font_idx, font_idx_upper |-> a.font_idx_upper,
                  bpp |-> a.bpp, shaveX |-> a.shaveX, gen_c |-> gen_c]
    /\ self = [face |-> NoFace]
    /\ pc = P("new", 0, 0, FALSE)
    /\ loc = NoLocals
    /\ fs = [f \in FileNames |-> NoFile]
    /\ extracted = {}
    /\ exc = ""
    /\ sched = OneBuild

\* The part of the state a step of the build changes.
Cur == [self |-> self, pc |-> pc, loc |-> loc, fs |-> fs,
        extracted |-> extracted, exc |-> exc]

Becomes(st) ==
    /\ self' = st.self /\ pc' = st.pc /\ loc' = st.loc /\ fs' = st.fs
    /\ extracted' = st.extracted /\ exc' = st.exc
    /\ UNCHANGED <<pk, ff, LAYOUT_NAME, WRITE_WIDTHS, font, args, sched>>

\* An exception leaves write_files: the locals are gone, and a file open in
\* a with block is closed with what was written to it.
RaiseIn(st, e) ==
    [st EXCEPT !.exc = e, !.pc = P("raised", 0, 0, FALSE), !.loc = NoLocals,
               !.fs = [f \in FileNames |->
                          IF @[f].state = "open" THEN [@[f] EXCEPT !.state = "closed"]
                          ELSE @[f]]]

\* Mutant of load_char: the character is not loaded.
load_char_stale(st, c) == st

\* self._load_char(c)
load_char(st, c) == [st EXCEPT !.self.face.loaded = c]

\* Glyph.from_face(self.face, c, self.shaveX, inv) on the loaded character.
Extract(st, c, inv) == from_face(FontGlyph(font, st.self.face.loaded), c, st.self.shaveX, inv)

Extracting(st, c, r) == [st EXCEPT !.extracted = IF r.ok THEN @ \cup {c} ELSE @]

\* Mutant of UpdateMetrics: yMax taken from yMin.
UpdateMetricsYMin(st, glyph) ==
    LET yMin == glyph.bearingY - glyph.rows
    IN  [st EXCEPT !.self.font_ymin = Min2(@, yMin), !.self.font_ymax = Max2(@, yMin)]

\* "Update mix/max metrics"
UpdateMetrics(st, glyph) ==
    LET yMin == glyph.bearingY - glyph.rows
        yMax == yMin + glyph.rows
    IN  [st EXCEPT !.self.font_ymin = Min2(@, yMin), !.self.font_ymax = Max2(@, yMax)]

AppendTo(st, f, entry) == [st EXCEPT !.fs[f].data = Append(@, entry)]

\* What the writers put into a file or a template.
GlyphEntry(i, bytes) == [kind |-> "glyph", id |-> i, bytes |-> bytes]
NonprintableEntry(bytes) == [kind |-> "nonprintable", id |-> 63, bytes |-> bytes]
TableEntry(variant, refs) == [kind |-> "table", variant |-> variant, refs |-> refs]
InfoEntry(variant, st) ==
    [kind |-> "info", variant |-> variant,
     max_height |-> st.self.font_ymax - st.self.font_ymin,
     baseline |-> -st.self.font_ymin]

\* The glyph references of the array of all glyphs, and of the _upper array.
NormalRefs == [k \in 1..(MAX_GLYPH + 1 - MIN_GLYPH) |-> MIN_GLYPH + k - 1]
\* Mutant of UpperRefs: no remap of the lowercase letters.
UpperRefsOwn == [k \in 1..(MAX_GLYPH + 1 - MIN_GLYPH) |-> MIN_GLYPH + k - 1]

UpperRefs ==
    [k \in 1..(MAX_GLYPH + 1 - MIN_GLYPH) |->
        IF islower(MIN_GLYPH + k - 1) THEN upper(MIN_GLYPH + k - 1)
        ELSE MIN_GLYPH + k - 1]

\* write_files: what runs after the C files, after the JSON files of a
\* variant, and after the widths file.
PcRust == P("rust_glyphs", MIN_GLYPH, 0, FALSE)

WidthChars(st) ==
    {IF islower(c) /\ ~st.self.gen_normal THEN upper(c) ELSE c : c \in MIN_GLYPH..MAX_GLYPH}
    \cup {all_languages[l][k] : l \in DOMAIN all_languages, k \in 1..2}

\* The element of sorted(S) after c (0 at the end); c = 0 gives the first.
NextSorted(S, c) ==
    LET above == {x \in S : x > c}
    IN  IF above = {} THEN 0 ELSE CHOOSE x \in above : \A y \in above : x <= y

PcWidths(st) ==
    IF WRITE_WIDTHS THEN P("widths", NextSorted(WidthChars(st), 0), 0, FALSE) ELSE PcRust
PcJsonUpper(st) == IF st.self.gen_upper THEN P("json", 1, 1, TRUE) ELSE PcWidths(st)
PcJsonNormal(st) == IF st.self.gen_normal THEN P("json", 1, 1, FALSE) ELSE PcJsonUpper(st)
PcStart(st) == IF args.gen_c THEN P("c_file", 0, 0, FALSE) ELSE PcJsonNormal(st)

\* The object __init__ has set up.
Constructed ==
    [name |-> "font", bpp |-> args.bpp, shaveX |-> args.shaveX,
     gen_normal |-> args.gen_normal, gen_upper |-> args.gen_upper,
     font_idx |-> args.font_idx, font_idx_upper |-> args.font_idx_upper,
     face |-> [open |-> TRUE, loaded |-> 0], font_ymin |-> 0, font_ymax |-> 0]

\* Mutant of Construct: the check of the generate flags left out.
ConstructUnchecked ==
    /\ pc.at = "new"
    /\ LET st == [Cur EXCEPT !.self = Constructed]
       IN  Becomes([st EXCEPT !.pc = PcStart(st)])

\* FaceProcessor.__init__, and the call of write_files on the new object.
Construct ==
    /\ pc.at = "new"
    /\ IF args.gen_normal = FALSE /\ args.gen_upper = FALSE
       THEN Becomes(RaiseIn(Cur, "ValueError"))
       ELSE LET st == [Cur EXCEPT !.self = Constructed]
            IN  Becomes([st EXCEPT !.pc = PcStart(st)])

\* _write_c_file: open(..., "wt") and _write_c_file_header.
CFileOpen ==
    /\ pc.at = "c_file"
    /\ Becomes([Cur EXCEPT !.fs[CFile] = [state |-> "open",
                                          data |-> <<[kind |-> "header", bpp |-> self.bpp]>>],
                           !.pc = P("c_chars", MIN_GLYPH, 0, FALSE)])

\* The next position of a loop over range(MIN_GLYPH, MAX_GLYPH + 1).
LoopNext(st, at, after) ==
    [st EXCEPT !.pc = IF st.pc.i < MAX_GLYPH THEN P(at, st.pc.i + 1, 0, FALSE) ELSE after]

\* _write_char_definition(f, c, i)
write_char_definition(st, c, i) ==
    LET st1 == load_char(st, c)
        r == Extract(st1, c, FALSE)
        st2 == Extracting(st1, c, r)
    IN  IF ~r.ok THEN RaiseIn(st2, r.err)
        ELSE LET b == to_bytes(r.val, st.self.bpp)
             IN  IF ~b.ok THEN RaiseIn(st2, b.err)
                 ELSE UpdateMetrics(AppendTo(st2, CFile, GlyphEntry(i, b.val)), r.val)

\* One iteration of the first loop of _write_c_file_content.
CChar ==
    /\ pc.at = "c_chars"
    /\ LET i == pc.i
           st == IF islower(i) /\ ~self.gen_normal THEN Cur
                 ELSE write_char_definition(Cur, i, i)
       IN  Becomes(IF st.exc # "" THEN st
                   ELSE LoopNext(st, "c_chars", P("c_finish", 0, 0, FALSE)))

\* The tables and the font info structures of _write_c_file_content.
CTables(st) ==
    LET t1 == IF st.self.gen_normal
              THEN AppendTo(st, CFile, TableEntry("normal", NormalRefs)) ELSE st
        t2 == IF st.self.gen_upper
              THEN AppendTo(t1, CFile, TableEntry("upper", UpperRefs)) ELSE t1
        t3 == IF st.self.gen_normal
              THEN AppendTo(t2, CFile, InfoEntry("normal", t2)) ELSE t2
    IN  IF st.self.gen_upper THEN AppendTo(t3, CFile, InfoEntry("upper", t3)) ELSE t3

\* The rest of _write_c_file_content after the loop: the nonprintable glyph
\* (_get_nonprintable_definition_line), the tables, the font info; then the
\* with block of _write_c_file closes the file.
CFinish ==
    /\ pc.at = "c_finish"
    /\ LET st1 == load_char(Cur, 63)
           r == Extract(st1, 63, TRUE)
           st2 == Extracting(st1, 63, r)
       IN  IF ~r.ok THEN Becomes(RaiseIn(st2, r.err))
           ELSE LET b == to_bytes(r.val, self.bpp)
                IN  IF ~b.ok THEN Becomes(RaiseIn(st2, b.err))
                    ELSE LET st3 == CTables(AppendTo(st2, CFile, NonprintableEntry(b.val)))
                         IN  Becomes([st3 EXCEPT !.fs[CFile].state = "closed",
                                                 !.pc = P("h_file", 0, 0, FALSE)])

\* _write_h_file
WriteHFile ==
    /\ pc.at = "h_file"
    /\ Becomes([Cur EXCEPT
          !.fs[HFile] =
              [state |-> "closed",
               data |-> <<[kind |-> "header", bpp |-> self.bpp]>>
                        \o (IF self.gen_normal
                            THEN <<[kind |-> "extern", variant |-> "normal"]>> ELSE <<>>)
                        \o (IF self.gen_upper
                            THEN <<[kind |-> "extern", variant |-> "upper"]>> ELSE <<>>)],
          !.pc = PcJsonNormal(Cur)])

\* _normalize: NFKC leaves each character of the model as it is (ASCII and
\* precomposed Latin-1 letters).
normalize(c) == c

\* One iteration of the inner loop of write_foreign_json(upper_cased).
JsonChar ==
    /\ pc.at = "json"
    /\ LET language_chars == all_languages[LangOrder[pc.lang]]
           map_from == normalize(language_chars[pc.i])
           c == IF islower(map_from) /\ pc.upper /\ map_from # 223
                THEN upper(map_from) ELSE map_from
           st1 == load_char(Cur, c)
           r == Extract(st1, c, FALSE)
           st2 == Extracting(st1, c, r)
       IN  IF ~r.ok THEN Becomes(RaiseIn(st2, r.err))
           ELSE LET b == to_bytes(r.val, self.bpp)
                IN  IF ~b.ok THEN Becomes(RaiseIn(st2, b.err))
                    ELSE Becomes([st2 EXCEPT
                            !.loc.fontdata = Append(@, [from |-> map_from, bytes |-> b.val]),
                            !.pc = IF pc.i < Len(language_chars)
                                   THEN P("json", pc.i + 1, pc.lang, pc.upper)
                                   ELSE P("json_write", 0, pc.lang, pc.upper)])

\* The end of an iteration of the outer loop of write_foreign_json:
\* file.write_text(json_content), and what follows the last language.
JsonWrite ==
    /\ pc.at = "json_write"
    /\ Becomes([Cur EXCEPT
          !.fs[JsonFile(pc.upper, LangOrder[pc.lang])] =
              [state |-> "closed", data |-> loc.fontdata],
          !.loc = NoLocals,
          !.pc = IF pc.lang < Len(LangOrder) THEN P("json", 1, pc.lang + 1, pc.upper)
                 ELSE IF ~pc.upper THEN PcJsonUpper(Cur)
                 ELSE PcWidths(Cur)])

\* One iteration of the loop over sorted(chars) of write_char_widths_files.
WidthsChar ==
    /\ pc.at = "widths"
    /\ LET c == pc.i
           st1 == load_char(Cur, c)
           r == Extract(st1, c, FALSE)
           st2 == Extracting(st1, c, r)
           next == NextSorted(WidthChars(Cur), c)
       IN  IF ~r.ok THEN Becomes(RaiseIn(st2, r.err))
           ELSE Becomes([st2 EXCEPT
                   !.loc.widths = Append(@, [char |-> c, advance |-> r.val.advance]),
                   !.pc = IF next # 0 THEN P("widths", next, 0, FALSE)
                          ELSE P("widths_write", 0, 0, FALSE)])

\* The end of write_char_widths_files: the widths file is written.
WidthsWrite ==
    /\ pc.at = "widths_write"
    /\ Becomes([Cur EXCEPT !.fs[WidthsFile] = [state |-> "closed", data |-> loc.widths],
                           !.loc = NoLocals,
                           !.pc = PcRust])

\* One iteration of loop 1 of write_rust_file ("Gather ASCII glyph
\* definitions").
RustGlyph ==
    /\ pc.at = "rust_glyphs"
    /\ LET i == pc.i
           st1 == load_char(Cur, i)
           r == Extract(st1, i, FALSE)
           st2 == Extracting(st1, i, r)
       IN  IF islower(i) /\ ~self.gen_normal
           THEN Becomes(LoopNext(Cur, "rust_glyphs", P("rust_nonprintable", 0, 0, FALSE)))
           ELSE IF ~r.ok THEN Becomes(RaiseIn(st2, r.err))
           ELSE LET b == to_bytes(r.val, self.bpp)
                IN  IF ~b.ok THEN Becomes(RaiseIn(st2, b.err))
                    ELSE Becomes(LoopNext(
                            [st2 EXCEPT !.loc.glyphs = Append(@, GlyphEntry(i, b.val))],
                            "rust_glyphs", P("rust_nonprintable", 0, 0, FALSE)))

\* Steps 2 and 3 of write_rust_file (the nonprintable glyph; the arrays of
\* glyph references are NormalRefs and UpperRefs), and the reset of font_ymin
\* and font_ymax that opens step 4.
RustNonprintable ==
    /\ pc.at = "rust_nonprintable"
    /\ LET st1 == load_char(Cur, 63)
           r == Extract(st1, 63, TRUE)
           st2 == Extracting(st1, 63, r)
       IN  IF ~r.ok THEN Becomes(RaiseIn(st2, r.err))
           ELSE LET b == to_bytes(r.val, self.bpp)
                IN  IF ~b.ok THEN Becomes(RaiseIn(st2, b.err))
                    ELSE Becomes([st2 EXCEPT
                            !.loc.glyphs = Append(@, NonprintableEntry(b.val)),
                            !.self.font_ymin = 0,
                            !.self.font_ymax = 0,
                            !.pc = P("rust_metrics", MIN_GLYPH, 0, FALSE)])

\* One iteration of the loop of step 4 of write_rust_file ("Recompute
\* font_ymin and font_ymax").
RustMetricsChar ==
    /\ pc.at = "rust_metrics"
    /\ LET i == pc.i
           st1 == load_char(Cur, i)
           r == Extract(st1, i, FALSE)
           st2 == Extracting(st1, i, r)
       IN  IF islower(i) /\ ~self.gen_normal
           THEN Becomes(LoopNext(Cur, "rust_metrics", P("rust_finish", 0, 0, FALSE)))
           ELSE IF ~r.ok THEN Becomes(RaiseIn(st2, r.err))
           ELSE Becomes(LoopNext(UpdateMetrics(st2, r.val), "rust_metrics",
                                 P("rust_finish", 0, 0, FALSE)))

\* The font_info dict of a variant.
FontInfo(variant, idx, st) ==
    [kind |-> "info", variant |-> variant, translation_blob_idx |-> idx,
     max_height |-> st.self.font_ymax - st.self.font_ymin,
     baseline |-> -st.self.font_ymin]

\* Step 5 of write_rust_file and its end: the FontInfo definitions, the
\* rendering of the template, the write of the file _rs_file_name names.
RustFinish ==
    /\ pc.at = "rust_finish"
    /\ IF self.gen_normal /\ self.font_idx = None
       THEN Becomes(RaiseIn(Cur, "ValueError"))
       ELSE IF self.gen_upper /\ self.font_idx_upper = None
       THEN Becomes(RaiseIn(Cur, "ValueError"))
       ELSE Becomes([Cur EXCEPT
               !.fs[RsFile(LAYOUT_NAME)] =
                   [state |-> "closed",
                    data |-> loc.glyphs
                       \o (IF self.gen_normal
                           THEN <<TableEntry("normal", NormalRefs)>> ELSE <<>>)
                       \o (IF self.gen_upper
                           THEN <<TableEntry("upper", UpperRefs)>> ELSE <<>>)
                       \o (IF self.gen_normal
                           THEN <<FontInfo("normal", self.font_idx, Cur)>> ELSE <<>>)
                       \o (IF self.gen_upper
                           THEN <<FontInfo("upper", self.font_idx_upper, Cur)>> ELSE <<>>)],
               !.loc = NoLocals,
               !.pc = P("done", 0, 0, FALSE)])

Next ==
    \/ Construct
    \/ CFileOpen
    \/ CChar
    \/ CFinish
    \/ WriteHFile
    \/ JsonChar
    \/ JsonWrite
    \/ WidthsChar
    \/ WidthsWrite
    \/ RustGlyph
    \/ RustNonprintable
    \/ RustMetricsChar
    \/ RustFinish

Spec == Init /\ [][Next]_vars

(***************************************************************************)
(* Claims about the build (checked under Spec).                            *)
(***************************************************************************)
NoOutput == \A f \in FileNames : fs[f].state = "absent"

\* C8: if a glyph extraction or a configuration check fails at any point of
\* a build, the build ends with that error and no output file has been
\* written, in whole or in part.
C8_NoArtifactOnFailure == pc.at = "raised" => NoOutput

\* C9: constructing a build with gen_normal and gen_upper both false fails
\* with a configuration error before any character is loaded into the face,
\* before any glyph is extracted and before any output is written.
C9_NoVariantFailsFirst ==
    (args.gen_normal = FALSE /\ args.gen_upper = FALSE) =>
        /\ pc.at \in {"new", "raised"}
        /\ pc.at = "raised" => exc = "ValueError"
        /\ self.face.loaded = 0
        /\ extracted = {}
        /\ NoOutput

\* A build with both flags false, after the constructor has raised.
C9_Witness ==
    /\ args.gen_normal = FALSE /\ args.gen_upper = FALSE
    /\ pc.at = "raised" /\ exc = "ValueError"

\* The characters of the full variant or, when it is disabled, of the
\* upper-only variant.
Included == {c \in MIN_GLYPH..MAX_GLYPH : ~(islower(c) /\ ~args.gen_normal)}

GlyphOf(c) == from_face(FontGlyph(font, c), c, args.shaveX, FALSE).val

SetMin(S) == CHOOSE x \in S : \A y \in S : x <= y
SetMax(S) == CHOOSE x \in S : \A y \in S : x >= y

ExpectedYMin == SetMin({0} \cup {GlyphOf(c).bearingY - GlyphOf(c).rows : c \in Included})
ExpectedYMax == SetMax({0} \cup {GlyphOf(c).bearingY : c \in Included})

\* The font info records written to the C file and to the Rust file.
WrittenInfos ==
    UNION {{fs[f].data[k] : k \in {j \in 1..Len(fs[f].data) : fs[f].data[j].kind = "info"}} :
              f \in {CFile, RsFile(LAYOUT_NAME)}}

\* C10: after a build font_ymin is the minimum of 0 and bearingY - rows over
\* the glyphs of the included characters, and font_ymax the maximum of 0 and
\* bearingY over them; at every step font_ymin <= 0 <= font_ymax; the
\* baseline and max_height that are written are -font_ymin and
\* font_ymax - font_ymin, both >= 0.
C10_VerticalExtent ==
    /\ pc.at \notin {"new", "raised"} => self.font_ymin <= 0 /\ 0 <= self.font_ymax
    /\ (pc.at = "done" \/ WrittenInfos # {}) =>
          LET lo == ExpectedYMin
              hi == ExpectedYMax
          IN  /\ pc.at = "done" => self.font_ymin = lo /\ self.font_ymax = hi
              /\ \A e \in WrittenInfos :
                    /\ e.baseline = -lo
                    /\ e.max_height = hi - lo
                    /\ e.baseline >= 0
                    /\ e.max_height >= 0

\* A finished build of a font whose "j" has a deep descender: with the full
\* variant the descender sets font_ymin, without it "j" is not included.
C10_Witness ==
    /\ pc.at = "done" /\ font.c = 106 /\ font.p = "deep"
    /\ \/ args.gen_normal /\ self.font_ymin = -5 /\ args.gen_c
       \/ ~args.gen_normal /\ self.font_ymin > -5

\* The index tables of a file, and the ids of the glyphs defined in it.
TablesOf(f) ==
    {fs[f].data[k] : k \in {j \in 1..Len(fs[f].data) : fs[f].data[j].kind = "table"}}
GlyphIdsOf(f) ==
    {fs[f].data[k].id : k \in {j \in 1..Len(fs[f].data) : fs[f].data[j].kind = "glyph"}}

\* C11: with only the upper-only variant enabled no lowercase ASCII letter is
\* extracted; each generated index table has 95 entries; in the upper-only
\* table the entry of a lowercase letter refers to the glyph of its uppercase
\* letter and every other entry to its own glyph; every entry of every table
\* refers to a glyph extracted in the build (and defined in the same file).
C11_IndexTables ==
    /\ (~args.gen_normal /\ args.gen_upper) => extracted \cap (97..122) = {}
    /\ \A f \in {CFile, RsFile(LAYOUT_NAME)} :
          fs[f].state = "closed" =>
             LET ids == GlyphIdsOf(f)
             IN  \A t \in TablesOf(f) :
                   /\ Len(t.refs) = 95
                   /\ t.variant = "upper" =>
                         \A k \in 1..95 :
                            t.refs[k] = IF 31 + k \in 97..122 THEN 31 + k - 32 ELSE 31 + k
                   /\ {t.refs[k] : k \in 1..95} \subseteq (extracted \cap ids)

\* A finished upper-only build that wrote its table to the C file and to the
\* Rust file.
C11_Witness ==
    /\ pc.at = "done" /\ ~args.gen_normal /\ args.gen_upper
    /\ \E t \in TablesOf(CFile) : t.variant = "upper" /\ t.refs[66] = 65
    /\ \E t \in TablesOf(RsFile(LAYOUT_NAME)) : t.variant = "upper"
    /\ 65 \in extracted

(***************************************************************************)
(* Unsupported bit depths (checked under SpecPack).                        *)
(***************************************************************************)
PackedUnsupported == pk.op = "pack" /\ pk.bpp \notin {1, 2, 4, 8}
SerializedUnsupported == pk.op = "to_bytes" /\ pk.bpp \notin {1, 2, 4, 8}

PackerFails ==
    PackedUnsupported =>
        ~pk.out.ok /\ pk.out.err = "ValueError" /\ pk.out.val = <<>>

\* C12 as stated: for every bpp outside {1,2,4,8} process_bitmap_buffer
\* raises and returns no bytes, and Glyph.to_bytes called with that bpp
\* raises the same error instead of returning bytes, whatever the glyph.
C12_UnsupportedBppAlwaysFails ==
    /\ PackerFails
    /\ SerializedUnsupported =>
          /\ ~pk.out.ok
          /\ pk.out = process_bitmap_buffer(pk.glyph.buf, pk.bpp,
                                            pk.glyph.width, pk.glyph.rows)

\* C12, amended: for every bpp outside {1,2,4,8} process_bitmap_buffer raises
\* and returns no bytes; Glyph.to_bytes called with that bpp on a glyph whose
\* buf is non-empty raises the same error; on a glyph whose buf is empty it
\* does not call the packer and returns the 5 header bytes.
C12_UnsupportedBppFailsWithPixels ==
    /\ PackerFails
    /\ SerializedUnsupported =>
          LET g == pk.glyph
          IN  /\ g.buf # <<>> =>
                    /\ ~pk.out.ok
                    /\ pk.out = process_bitmap_buffer(g.buf, pk.bpp, g.width, g.rows)
              /\ g.buf = <<>> =>
                    /\ pk.out.ok
                    /\ pk.out.val = <<g.width, g.rows, g.advance, g.bearingX, g.bearingY>>

\* to_bytes(16) that raised on a glyph with pixels.
C12_Witness ==
    /\ SerializedUnsupported /\ pk.bpp = 16
    /\ pk.glyph.buf # <<>> /\ ~pk.out.ok /\ pk.out.err = "ValueError"

(***************************************************************************)
(* The left shave of Glyph.from_face (checked under SpecGlyph).            *)
(***************************************************************************)
Returned == Extracted /\ ff.res.ok
RasterWidth == ff.glyph.bitmap.width

\* Step 1 as the code has it: nothing is taken when shaveX = 0.
GuardedDiff ==
    IF ff.shaveX > 0
    THEN Min3(RasterAdvance, RasterBearingX, ff.shaveX)
    ELSE 0

\* The columns still to remove from the bitmap after step 1.
Remaining == ff.shaveX - GuardedDiff

\* C14: when from_face returns with remaining > 0 and width > 0, the buffer
\* is the input buffer without the leftmost `remaining` columns of every row
\* (output pixel (r, c) is input pixel (r, c + remaining)), width and advance
\* are each reduced by remaining; and for every returned glyph
\* len(buf) = width * rows, with buf empty exactly when width * rows = 0.
C14_LeftColumnsDropped ==
    Returned =>
        LET g == ff.res.val
            w == RasterWidth
            in == ff.glyph.bitmap.buffer
        IN  /\ Len(g.buf) = g.width * g.rows
            /\ (g.buf = <<>>) <=> (g.width * g.rows = 0)
            /\ (Remaining > 0 /\ w > 0) =>
                  /\ g.width = w - Remaining
                  /\ g.rows = ff.glyph.bitmap.rows
                  /\ g.advance =
                        RasterAdvance - GuardedDiff
                        + Max2(0, GuardedDiff - RasterBearingX) - Remaining
                  /\ \A r \in 0..(g.rows - 1) : \A c \in 0..(g.width - 1) :
                        g.buf[r * g.width + c + 1] = in[r * w + c + Remaining + 1]

\* A returned glyph of two rows that lost one of its three columns.
C14_Witness ==
    /\ Returned /\ Remaining = 1
    /\ RasterWidth = 3 /\ ff.res.val.width = 2 /\ ff.res.val.rows = 2
    /\ ff.res.val.buf = <<48, 85, 159, 196>>

\* What from_face shows of step 1 when diff is d: a character outside
\* MODIFY_BEARING_X is refused with ValueError exactly when bearingX - d is
\* negative; a returned glyph has bearingX - d (or 0) as its bearingX, has
\* lost shaveX - d columns if that is positive and there are columns, and
\* has the advance that follows from advance - d.
Step1Shows(d) ==
    /\ (Extracted /\ RasterAsserts(ff.glyph.bitmap, ff.glyph.metrics)
                  /\ ff.c \notin MODIFY_BEARING_X) =>
          ((~ff.res.ok /\ ff.res.err = "ValueError") <=> (RasterBearingX - d < 0))
    /\ Returned =>
          LET g == ff.res.val
              dropped == RasterWidth - g.width
          IN  /\ g.bearingX = Max2(0, RasterBearingX - d)
              /\ dropped = IF ff.shaveX - d > 0 /\ RasterWidth > 0
                           THEN ff.shaveX - d ELSE 0
              /\ g.advance = RasterAdvance - d + Max2(0, d - RasterBearingX) - dropped

\* C15 as stated: for every input and every shaveX >= 0, shaveX = 0 and
\* negative bearingX included, step 1 takes
\* diff = min(advance, bearingX, shaveX) from advance and from bearingX and
\* leaves remaining = shaveX - diff, before the negative-bearing check.
C15_Step1AsSpecified ==
    Step1Shows(Min3(RasterAdvance, RasterBearingX, ff.shaveX))

\* C15, amended: for shaveX > 0 step 1 takes
\* diff = min(advance, bearingX, shaveX) from advance and from bearingX and
\* leaves remaining = shaveX - diff, before the negative-bearing check; for
\* shaveX = 0 it changes nothing (diff = 0, remaining = 0).
C15_Step1WhenShaving == Step1Shows(GuardedDiff)

\* shaveX = 0 and a negative reported bearingX: the allow-listed "A" comes
\* back with all its columns, the bearing added to its advance.
C15_Witness ==
    /\ Returned /\ ff.shaveX = 0 /\ ff.c = 65
    /\ RasterBearingX = -1 /\ RasterAdvance = 4
    /\ ff.res.val.advance = 5 /\ ff.res.val.bearingX = 0
    /\ ff.res.val.width = RasterWidth /\ RasterWidth = 3

\* C17: when from_face returns on an input with bearingX >= 0, advance >= 0
\* and width > 0, the returned advance is the input advance minus shaveX and
\* the returned bearingX + width is the input bearingX + width minus shaveX.
C17_ShaveAccounted ==
    (Returned /\ RasterBearingX >= 0 /\ RasterAdvance >= 0 /\ RasterWidth > 0) =>
        /\ ff.res.val.advance = RasterAdvance - ff.shaveX
        /\ ff.res.val.bearingX + ff.res.val.width =
              RasterBearingX + RasterWidth - ff.shaveX

\* A shave of 2 taken half from the bearing and half from the bitmap.
C17_Witness ==
    /\ Returned /\ ff.shaveX = 2
    /\ RasterBearingX = 1 /\ RasterAdvance = 4 /\ RasterWidth = 3
    /\ ff.res.val.bearingX = 0 /\ ff.res.val.width = 2 /\ ff.res.val.advance = 2

(***************************************************************************)
(* The order of _load_char and Glyph.from_face (checked under Spec).       *)
(***************************************************************************)
\* What from_face returns for character c of the build's font, and its
\* serialization at the build's bpp.
OwnGlyph(c, inv) == from_face(FontGlyph(font, c), c, self.shaveX, inv)
OwnBytes(c, inv) == to_bytes(OwnGlyph(c, inv).val, self.bpp).val

\* The entries a step has appended to a sequence.
Appended(old, new) == {new[k] : k \in (Len(old) + 1)..Len(new)}

\* The character the JSON writer extracts for the entry of map_from.
JsonGlyphChar(map_from) ==
    IF pc.upper /\ (map_from \in 97..122 \/ map_from \in {225, 228})
    THEN map_from - 32 ELSE map_from

\* A step that extracted character c left c loaded in the face.
LoadedIs(c) == self'.face.loaded = c

ExtractsOwnGlyph ==
    /\ \A e \in Appended(fs[CFile].data, fs'[CFile].data)
                \cup Appended(loc.glyphs, loc'.glyphs) :
          /\ e.kind = "glyph" => LoadedIs(e.id) /\ e.bytes = OwnBytes(e.id, FALSE)
          /\ e.kind = "nonprintable" => LoadedIs(63) /\ e.bytes = OwnBytes(63, TRUE)
    /\ \A e \in Appended(loc.fontdata, loc'.fontdata) :
          /\ LoadedIs(JsonGlyphChar(e.from))
          /\ e.bytes = OwnBytes(JsonGlyphChar(e.from), FALSE)
    /\ \A e \in Appended(loc.widths, loc'.widths) :
          /\ LoadedIs(e.char)
          /\ e.advance = OwnGlyph(e.char, FALSE).val.advance
    /\ (pc.at = "rust_metrics" /\ pc'.at # "raised" /\ self'.face.loaded # self.face.loaded) =>
          /\ LoadedIs(pc.i)
          /\ self'.font_ymin = Min2(self.font_ymin,
                OwnGlyph(pc.i, FALSE).val.bearingY - OwnGlyph(pc.i, FALSE).val.rows)
          /\ self'.font_ymax = Max2(self.font_ymax, OwnGlyph(pc.i, FALSE).val.bearingY)
    /\ extracted' # extracted => extracted' = extracted \cup {self'.face.loaded}

\* C16: in every operation of FaceProcessor (C writer, Rust writer, JSON
\* writer, width writer, nonprintable glyph) each Glyph.from_face(face, c)
\* comes right after _load_char(c) for the same c on the same face, so that
\* the bitmap and the metrics that are extracted are those of c: every step
\* that extracts c leaves c loaded, and what it records for c is the glyph of
\* c in the font.
C16_LoadPrecedesExtract == [][ExtractsOwnGlyph]_vars

\* The upper-only JSON writer after its first character: a-acute was
\* uppercased, loaded and extracted.
C16_Witness ==
    /\ pc.at = "json" /\ pc.upper /\ pc.i = 2
    /\ self.face.loaded = 193 /\ 193 \in extracted
    /\ Len(loc.fontdata) = 1 /\ loc.fontdata[1].from = 225

(***************************************************************************)
(* SpecPar: two builds, each started by its layout function, whose steps   *)
(* their caller interleaves.  The variables of Spec hold the build that is *)
(* running; sched.other holds the one that is waiting.  Each build has its *)
(* own face and its own files (the file names carry the font name); the    *)
(* module globals LAYOUT_NAME and WRITE_WIDTHS are the same for both.      *)
(***************************************************************************)
\* What belongs to one build.
Private ==
    [font |-> font, args |-> args, self |-> self, pc |-> pc, loc |-> loc,
     fs |-> fs, extracted |-> extracted, exc |-> exc]

\* A build before its layout function has assigned LAYOUT_NAME.
BuildStart(f, a, gen_c) ==
    [font |-> f,
     args |-> [gen_normal |-> a.gen_normal, gen_upper |-> a.gen_upper,
               font_idx |-> a.font_idx, font_idx_upper |-> a.font_idx_upper,
               bpp |-> a.bpp, shaveX |-> a.shaveX, gen_c |-> gen_c],
     self |-> [face |-> NoFace],
     pc |-> P("layout", 0, 0, FALSE),
     loc |-> NoLocals,
     fs |-> [n \in FileNames |-> NoFile],
     extracted |-> {},
     exc |-> ""]

\* The pairs of builds: the upper-only build of gen_layout_bolt with the
\* PixelOperatorMono build of gen_layout_caesar (on a font whose "j" has a
\* deep descender); and the first build of gen_layout_caesar, with C files
\* and width files, with a build the constructor refuses.
ParPairs ==
    {[first |-> BuildStart([c |-> 0, p |-> "base"],
                           MkArgs(FALSE, TRUE, None, 7, 4, 0), FALSE),
      second |-> BuildStart([c |-> 106, p |-> "deep"],
                            MkArgs(TRUE, FALSE, 3, None, 1, 1), FALSE),
      write_widths |-> FALSE],
     [first |-> BuildStart([c |-> 0, p |-> "base"],
                           MkArgs(TRUE, TRUE, 1, 6, 1, 1), TRUE),
      second |-> BuildStart([c |-> 0, p |-> "base"],
                            MkArgs(FALSE, FALSE, 1, 6, 4, 0), FALSE),
      write_widths |-> TRUE]}

InitPar ==
    /\ PackIdle /\ GlyphIdle
    /\ LAYOUT_NAME = ""
    /\ \E p \in ParPairs :
          /\ WRITE_WIDTHS = p.write_widths
          /\ font = p.first.font /\ args = p.first.args /\ self = p.first.self
          /\ pc = p.first.pc /\ loc = p.first.loc /\ fs = p.first.fs
          /\ extracted = p.first.extracted /\ exc = p.first.exc
          /\ sched = [cur |-> 1,
                      layout |-> <<LayoutOf(p.first.args), LayoutOf(p.second.args)>>,
                      other |-> p.second]

\* gen_layout_bolt, gen_layout_caesar: "global LAYOUT_NAME" and the
\* assignment that precedes the FaceProcessor(...) calls.
gen_layout ==
    /\ pc.at = "layout"
    /\ LAYOUT_NAME' = sched.layout[sched.cur]
    /\ pc' = P("new", 0, 0, FALSE)
    /\ UNCHANGED <<pk, ff, WRITE_WIDTHS, font, args, self, loc, fs, extracted, exc, sched>>

\* The caller lets the other build take its next steps.
Switch ==
    /\ sched.cur # 0
    /\ sched' = [sched EXCEPT !.cur = 3 - @, !.other = Private]
    /\ font' = sched.other.font /\ args' = sched.other.args
    /\ self' = sched.other.self /\ pc' = sched.other.pc
    /\ loc' = sched.other.loc /\ fs' = sched.other.fs
    /\ extracted' = sched.other.extracted /\ exc' = sched.other.exc
    /\ UNCHANGED <<pk, ff, LAYOUT_NAME, WRITE_WIDTHS>>

NextPar ==
    \/ gen_layout
    \/ Switch
    \/ Next

SpecPar == InitPar /\ [][NextPar]_vars

(***************************************************************************)
(* Claims about interleaved builds (checked under SpecPar).                *)
(***************************************************************************)
BuildOf(b) == IF sched.cur = b THEN Private ELSE sched.other

\* What a build that runs alone gets for character c, and its vertical
\* extent.
AloneGlyph(st, c, inv) == from_face(FontGlyph(st.font, c), c, st.self.shaveX, inv)
AloneBytes(st, c, inv) == to_bytes(AloneGlyph(st, c, inv).val, st.self.bpp).val
AloneIncluded(st) ==
    {c \in MIN_GLYPH..MAX_GLYPH : ~(c \in 97..122 /\ ~st.args.gen_normal)}
AloneYMin(st) ==
    SetMin({0} \cup {AloneGlyph(st, c, FALSE).val.bearingY
                        - AloneGlyph(st, c, FALSE).val.rows : c \in AloneIncluded(st)})
AloneYMax(st) ==
    SetMax({0} \cup {AloneGlyph(st, c, FALSE).val.bearingY : c \in AloneIncluded(st)})

\* The glyph bytes of the Rust file the build wrote, wherever it wrote it, and
\* its font_ymin and font_ymax, are those of the build alone.
SameGlyphsAndExtent(st) ==
    /\ st.self.font_ymin = AloneYMin(st)
    /\ st.self.font_ymax = AloneYMax(st)
    /\ \E l \in Layouts : st.fs[RsFile(l)].state = "closed"
    /\ \A l \in Layouts :
          LET d == st.fs[RsFile(l)].data
          IN  st.fs[RsFile(l)].state = "closed" =>
                /\ {d[k].id : k \in {j \in 1..Len(d) : d[j].kind = "glyph"}}
                      = AloneIncluded(st)
                /\ \A k \in 1..Len(d) :
                      /\ d[k].kind = "glyph" => d[k].bytes = AloneBytes(st, d[k].id, FALSE)
                      /\ d[k].kind = "nonprintable" => d[k].bytes = AloneBytes(st, 63, TRUE)

\* The Rust file is in the directory of the layout whose function started
\* the build, and nowhere else.
SameDestination(st, layout) ==
    \A l \in Layouts : (st.fs[RsFile(l)].state = "closed") <=> (l = layout)

\* C13: builds share no mutable state: when the steps of two builds on
\* independent faces are interleaved in any order, each build that finishes
\* has produced the glyph bytes, the font_ymin / font_ymax and the output
\* destination it produces when it runs alone.
C13_BuildsIndependent ==
    \A b \in {1, 2} :
        BuildOf(b).pc.at = "done" =>
            /\ SameGlyphsAndExtent(BuildOf(b))
            /\ SameDestination(BuildOf(b), sched.layout[b])

=============================================================================
